---------------------------- MODULE Spec2Model ----------------------------
(***************************************************************************)
(* Verification model of the diffeomorphic deformation engine of           *)
(* deformetrica: the Exponential (shoot / flow / parallel transport) of    *)
(* src/src/core/model_tools/deformations/exponential.py.                    *)
(*                                                                         *)
(* Numbers are exact rationals <<n, d>> (d > 0, lowest terms).  Two        *)
(* denominators of 0 stand for what is no rational: NaN (the nan of the    *)
(* float arithmetic: 0/0) and Irr (a finite real that is no rational: a    *)
(* Gaussian kernel value between two distinct points).                     *)
(* A point is a tuple of numbers, an array (torch tensor of shape (N, D))  *)
(* a tuple of points, a Python list a tuple.  Python's None is the empty    *)
(* tuple; an attribute holding a number, a boolean or a kernel holds it as *)
(* Some(v) = <<v>>, so that every attribute compares with None.  A Python  *)
(* list index i is index i + 1 here.                                       *)
(***************************************************************************)
EXTENDS Integers, Sequences, FiniteSets, TLC

None == <<>>
Some(v) == <<v>>
Val(x) == x[1]

-----------------------------------------------------------------------------
(* Exact arithmetic *)

RECURSIVE GCD(_, _)
GCD(a, b) == IF b = 0 THEN a ELSE GCD(b, a % b)

Abs(n) == IF n < 0 THEN -n ELSE n

NaN == <<0, 0>>
Irr == <<1, 0>>

Q(n) == <<n, 1>>

IsNum(x) == x[2] # 0

Frac(n, d) ==
    IF d = 0 THEN NaN
    ELSE LET g == GCD(Abs(n), Abs(d))
             s == IF d < 0 THEN -1 ELSE 1
         IN  <<(s * n) \div g, (s * d) \div g>>

\* the result of an operation one of whose operands is no rational
NotNum(x, y) == IF x = NaN \/ y = NaN THEN NaN ELSE Irr

RAdd(x, y) ==
    IF IsNum(x) /\ IsNum(y) THEN Frac(x[1] * y[2] + y[1] * x[2], x[2] * y[2])
    ELSE NotNum(x, y)

RNeg(x) == IF IsNum(x) THEN <<-x[1], x[2]>> ELSE x

RSub(x, y) == RAdd(x, RNeg(y))

RMul(x, y) ==
    IF IsNum(x) /\ IsNum(y) THEN Frac(x[1] * y[1], x[2] * y[2])
    ELSE IF (x = Q(0) /\ y = Irr) \/ (x = Irr /\ y = Q(0)) THEN Q(0)
    ELSE NotNum(x, y)

RDiv(x, y) ==
    IF IsNum(x) /\ IsNum(y) THEN Frac(x[1] * y[2], x[2] * y[1])
    ELSE IF x = Q(0) /\ y = Irr THEN Q(0)
    ELSE NotNum(x, y)

\* x < y on rationals; a comparison with a nan is false
RLess(x, y) == IsNum(x) /\ IsNum(y) /\ x[1] * y[2] < y[1] * x[2]

RAbs(x) == IF IsNum(x) THEN <<Abs(x[1]), x[2]>> ELSE x

-----------------------------------------------------------------------------
(* Points and arrays *)

RECURSIVE PAdd(_, _)
PAdd(p, q) ==
    IF p = <<>> THEN <<>> ELSE <<RAdd(Head(p), Head(q))>> \o PAdd(Tail(p), Tail(q))

RECURSIVE PScale(_, _)
PScale(c, p) == IF p = <<>> THEN <<>> ELSE <<RMul(c, Head(p))>> \o PScale(c, Tail(p))

PSub(p, q) == PAdd(p, PScale(Q(-1), q))

RECURSIVE PDot(_, _)
PDot(p, q) ==
    IF p = <<>> THEN Q(0) ELSE RAdd(RMul(Head(p), Head(q)), PDot(Tail(p), Tail(q)))

PZero(p) == PScale(Q(0), PScale(Q(0), p))

RECURSIVE AAdd(_, _)
AAdd(a, b) ==
    IF a = <<>> THEN <<>> ELSE <<PAdd(Head(a), Head(b))>> \o AAdd(Tail(a), Tail(b))

RECURSIVE AScale(_, _)
AScale(c, a) == IF a = <<>> THEN <<>> ELSE <<PScale(c, Head(a))>> \o AScale(c, Tail(a))

ASub(a, b) == AAdd(a, AScale(Q(-1), b))

\* torch.dot of the two flattened arrays
RECURSIVE ADot(_, _)
ADot(a, b) ==
    IF a = <<>> THEN Q(0) ELSE RAdd(PDot(Head(a), Head(b)), ADot(Tail(a), Tail(b)))

RECURSIVE PDiv(_, _)
PDiv(p, c) == IF p = <<>> THEN <<>> ELSE <<RDiv(Head(p), c)>> \o PDiv(Tail(p), c)

\* the array divided by a scalar
RECURSIVE ADiv(_, _)
ADiv(a, c) == IF a = <<>> THEN <<>> ELSE <<PDiv(Head(a), c)>> \o ADiv(Tail(a), c)

\* tensor.size(): (N, D)
Size(a) == <<Len(a), Len(a[1])>>

-----------------------------------------------------------------------------
(* Kernel: the injected collaborator *)

\* exp(-|x - y|^2 / width^2): 1 at x = y, else a real that is no rational
KernelValue(x, y, width) ==
    IF \E d \in DOMAIN x : x[d] = NaN \/ y[d] = NaN THEN NaN
    ELSE IF x = y THEN Q(1)
    ELSE Irr

\* sum_j K(xi, y_j) p_j
RECURSIVE ConvolveAt(_, _, _, _)
ConvolveAt(kernel, xi, y, p) ==
    IF y = <<>> THEN PZero(xi)
    ELSE PAdd(PScale(KernelValue(xi, Head(y), kernel.kernel_width), Head(p)),
              ConvolveAt(kernel, xi, Tail(y), Tail(p)))

\* kernel.convolve(x, y, p): the vector field sum_j K(x_i, y_j) p_j at each x_i
RECURSIVE convolve(_, _, _, _)
convolve(kernel, x, y, p) ==
    IF x = <<>> THEN <<>>
    ELSE <<ConvolveAt(kernel, Head(x), y, p)>> \o convolve(kernel, Tail(x), y, p)

\* -(4 / width^2) sum_j (pi . p_j) K(xi, x_j) (xi - x_j)
RECURSIVE ConvolveGradientAt(_, _, _, _, _)
ConvolveGradientAt(kernel, pi, xi, p, x) ==
    IF x = <<>> THEN PZero(xi)
    ELSE PAdd(PScale(RMul(RMul(Frac(-4, kernel.kernel_width * kernel.kernel_width),
                               PDot(pi, Head(p))),
                          KernelValue(xi, Head(x), kernel.kernel_width)),
                     PSub(xi, Head(x))),
              ConvolveGradientAt(kernel, pi, xi, Tail(p), Tail(x)))

RECURSIVE ConvolveGradientFrom(_, _, _, _)
ConvolveGradientFrom(kernel, p, x, i) ==
    IF i > Len(x) THEN <<>>
    ELSE <<ConvolveGradientAt(kernel, p[i], x[i], p, x)>>
         \o ConvolveGradientFrom(kernel, p, x, i + 1)

\* kernel.convolve_gradient(p, x): the gradient in x_i of sum_ij p_i K(x_i, x_j) p_j
convolve_gradient(kernel, p, x) == ConvolveGradientFrom(kernel, p, x, 1)

\* kernel.get_kernel_matrix(x): the Gram matrix K(x_i, x_j), kept as the width and
\* the points that determine it
get_kernel_matrix(kernel, x) == [kernel_width |-> kernel.kernel_width, x |-> x]

\* torch.potrf(matrix): the Cholesky factor of the matrix, kept as the matrix it
\* is the factor of
potrf(matrix) == [factor_of |-> matrix]

\* torch.potrs(b, u): the solution m of (u^T u) m = b; u^T u is the Gram matrix of
\* one point x, the 1 x 1 matrix K(x, x)
potrs(b, u) ==
    AScale(RDiv(Q(1), KernelValue(u.factor_of.x[1], u.factor_of.x[1],
                                  u.factor_of.kernel_width)), b)

\* create_kernel(type, width)
create_kernel(type, width) == [type |-> type, kernel_width |-> width]

-----------------------------------------------------------------------------
(* Exponential: the integrators.  A value used more than once is handed   *)
(* on as a parameter of the operator that continues the computation.      *)

\* cp + h K(cp, cp, mom),  mom - h grad K(mom, cp)
euler_step(kernel, cp, mom, h) ==
    << AAdd(cp, AScale(h, convolve(kernel, cp, cp, mom))),
       ASub(mom, AScale(h, convolve_gradient(kernel, mom, cp))) >>

\* the full step of _rk2_step, the kernel evaluated at the mid-point
Rk2FromMid(kernel, cp, mom, h, mid_cp, mid_mom) ==
    << AAdd(cp, AScale(h, convolve(kernel, mid_cp, mid_cp, mid_mom))),
       ASub(mom, AScale(h, convolve_gradient(kernel, mid_mom, mid_cp))) >>

\* _rk2_step: the mid-point step; [1] alone is what return_mom = False returns
rk2_step(kernel, cp, mom, h) ==
    Rk2FromMid(kernel, cp, mom, h,
               AAdd(cp, AScale(RDiv(h, Q(2)), convolve(kernel, cp, cp, mom))),
               ASub(mom, AScale(RDiv(h, Q(2)), convolve_gradient(kernel, mom, cp))))

\* the loop of _shoot: steps more snapshots appended to the two trajectories
RECURSIVE ShootLoop(_, _, _, _, _, _)
RECURSIVE ShootAppend(_, _, _, _, _, _, _)
ShootLoop(kernel, rk2, dt, cps, moms, steps) ==
    IF steps = 0 THEN <<cps, moms>>
    ELSE ShootAppend(kernel, rk2, dt, cps, moms, steps,
                     IF rk2 THEN rk2_step(kernel, cps[Len(cps)], moms[Len(moms)], dt)
                     ELSE euler_step(kernel, cps[Len(cps)], moms[Len(moms)], dt))

ShootAppend(kernel, rk2, dt, cps, moms, steps, new) ==
    ShootLoop(kernel, rk2, dt, Append(cps, new[1]), Append(moms, new[2]), steps - 1)

\* `if self.use_rk2`: None is falsy
UseRk2(e) == e.use_rk2 = Some(TRUE)

\* the end of _shoot: the trajectories stored, norm_squared from the initial state
ShootDone(e, traj) ==
    [e |-> [e EXCEPT !.control_points_t = traj[1],
                     !.momenta_t = traj[2],
                     !.norm_squared =
                         ADot(e.initial_momenta,
                              convolve(Val(e.kernel), e.initial_control_points,
                                       e.initial_control_points, e.initial_momenta))],
     ok |-> TRUE]

\* _shoot: the exponential after it, and whether it returned (ok) or raised.
\* It raises on unset control points or momenta before it touches anything, and on
\* number_of_time_points = 1 (dt = 1 / 0) or an unset kernel after it has reset the
\* two trajectories to their first snapshot.
shoot(e) ==
    IF e.initial_control_points = None \/ e.initial_momenta = None
    THEN [e |-> e, ok |-> FALSE]
    ELSE IF Val(e.number_of_time_points) = 1 \/ e.kernel = None
    THEN [e |-> [e EXCEPT !.control_points_t = <<e.initial_control_points>>,
                          !.momenta_t = <<e.initial_momenta>>],
          ok |-> FALSE]
    ELSE ShootDone(e, ShootLoop(Val(e.kernel), UseRk2(e),
                                Frac(1, Val(e.number_of_time_points) - 1),
                                <<e.initial_control_points>>, <<e.initial_momenta>>,
                                Val(e.number_of_time_points) - 1))

\* the loop of _flow from step i on: the template trajectory, and whether the loop
\* ran to its end or raised (an index past the end of a shot trajectory)
RECURSIVE FlowLoop(_, _, _, _, _, _, _, _)
RECURSIVE FlowEuler(_, _, _, _, _, _, _, _, _)
RECURSIVE FlowHeun(_, _, _, _, _, _, _, _, _, _)
FlowLoop(kernel, rk2, dt, cps, moms, tds, i, steps) ==
    IF i = steps THEN [tds |-> tds, ok |-> TRUE]
    ELSE IF i + 1 > Len(cps) \/ i + 1 > Len(moms) THEN [tds |-> tds, ok |-> FALSE]
    ELSE FlowEuler(kernel, rk2, dt, cps, moms, tds, i, steps,
                   convolve(kernel, tds[i + 1], cps[i + 1], moms[i + 1]))

\* a variant of FlowEuler that advances the template by half a step
FlowEulerHalfStep(kernel, rk2, dt, cps, moms, tds, i, steps, d_pos) ==
    FlowHeun(kernel, rk2, dt, cps, moms, tds, i, steps, d_pos,
             AAdd(tds[i + 1], AScale(RDiv(dt, Q(2)), d_pos)))

\* template_data_t.append(template_data_t[i] + dt * d_pos)
FlowEuler(kernel, rk2, dt, cps, moms, tds, i, steps, d_pos) ==
    FlowHeun(kernel, rk2, dt, cps, moms, tds, i, steps, d_pos,
             AAdd(tds[i + 1], AScale(dt, d_pos)))

\* under RK2 the appended snapshot is replaced by Heun's correction
FlowHeun(kernel, rk2, dt, cps, moms, tds, i, steps, d_pos, euler) ==
    IF ~rk2
    THEN FlowLoop(kernel, rk2, dt, cps, moms, Append(tds, euler), i + 1, steps)
    ELSE IF i + 2 > Len(cps) \/ i + 2 > Len(moms)
    THEN [tds |-> Append(tds, euler), ok |-> FALSE]
    ELSE FlowLoop(kernel, rk2, dt, cps, moms,
                  Append(tds,
                         AAdd(tds[i + 1],
                              AScale(RDiv(dt, Q(2)),
                                     AAdd(convolve(kernel, euler, cps[i + 2], moms[i + 2]),
                                          d_pos)))),
                  i + 1, steps)

FlowDone(e, r) == [e |-> [e EXCEPT !.template_data_t = r.tds], ok |-> r.ok]

\* _flow (update calls it with initial_template_data set): raises before it touches
\* anything on a stale or missing shoot and on number_of_time_points = 1 (dt = 1 / 0)
flow(e) ==
    IF e.shoot_is_modified \/ e.control_points_t = None \/ e.momenta_t = None
       \/ Val(e.number_of_time_points) = 1
    THEN [e |-> e, ok |-> FALSE]
    ELSE IF e.kernel = None
    THEN [e |-> [e EXCEPT !.template_data_t = <<e.initial_template_data>>], ok |-> FALSE]
    ELSE FlowDone(e, FlowLoop(Val(e.kernel), UseRk2(e),
                              Frac(1, Val(e.number_of_time_points) - 1),
                              e.control_points_t, e.momenta_t,
                              <<e.initial_template_data>>, 0,
                              Val(e.number_of_time_points) - 1))

-----------------------------------------------------------------------------
(* Exponential: the public methods.  Each returns the exponential after   *)
(* the call and what the caller saw: outcome "ok" (returned) or "fault"    *)
(* (raised), whether a warning was emitted, and what was returned.         *)

\* what update() leaves and reports
Updated(e, outcome, warned, shoots, flows) ==
    [e |-> e, outcome |-> outcome, warned |-> warned, shoots |-> shoots, flows |-> flows]

\* a variant of UpdateAfterFlow that leaves flow_is_modified set
UpdateAfterFlowKeepingFlag(f, shoots) ==
    IF ~f.ok THEN Updated(f.e, "fault", FALSE, shoots, 1)
    ELSE Updated(f.e, "ok", FALSE, shoots, 1)

\* update() after a call of _flow: flow_is_modified is cleared if it returned
UpdateAfterFlow(f, shoots) ==
    IF ~f.ok THEN Updated(f.e, "fault", FALSE, shoots, 1)
    ELSE Updated([f.e EXCEPT !.flow_is_modified = FALSE], "ok", FALSE, shoots, 1)

\* update() after its call of _shoot: shoot_is_modified is cleared if it returned,
\* then the template is flowed, or the "not flowing" warning emitted
UpdateAfterShoot(s) ==
    IF ~s.ok THEN Updated(s.e, "fault", FALSE, 1, 0)
    ELSE IF s.e.initial_template_data # None
    THEN UpdateAfterFlow(flow([s.e EXCEPT !.shoot_is_modified = FALSE]), 1)
    ELSE Updated([s.e EXCEPT !.shoot_is_modified = FALSE], "ok", TRUE, 1, 0)

\* a variant of update that shoots without emptying the Cholesky cache
update_keeping_cache(e) ==
    IF e.number_of_time_points = None THEN Updated(e, "fault", FALSE, 0, 0)
    ELSE IF e.shoot_is_modified
    THEN UpdateAfterShoot(shoot(e))
    ELSE IF e.flow_is_modified
    THEN IF e.initial_template_data # None
         THEN UpdateAfterFlow(flow(e), 0)
         ELSE Updated(e, "ok", TRUE, 0, 0)
    ELSE Updated(e, "ok", FALSE, 0, 0)

\* update()
update(e) ==
    IF e.number_of_time_points = None THEN Updated(e, "fault", FALSE, 0, 0)
    ELSE IF e.shoot_is_modified
    THEN UpdateAfterShoot(shoot([e EXCEPT !.cholesky_kernel_matrices = <<>>]))
    ELSE IF e.flow_is_modified
    THEN IF e.initial_template_data # None
         THEN UpdateAfterFlow(flow(e), 0)
         ELSE Updated(e, "ok", TRUE, 0, 0)
    ELSE Updated(e, "ok", FALSE, 0, 0)

\* a variant of get_template_data that returns the last snapshot whatever the index
get_template_data_last(e, time_index) ==
    IF e.flow_is_modified THEN [outcome |-> "fault", ret |-> None]
    ELSE [outcome |-> "ok", ret |-> e.template_data_t[Len(e.template_data_t)]]

\* get_template_data(time_index); time_index is None or Some(i)
get_template_data(e, time_index) ==
    IF e.flow_is_modified THEN [outcome |-> "fault", ret |-> None]
    ELSE IF time_index = None
    THEN [outcome |-> "ok", ret |-> e.template_data_t[Len(e.template_data_t)]]
    ELSE IF Val(time_index) + 1 > Len(e.template_data_t)
    THEN [outcome |-> "fault", ret |-> None]
    ELSE [outcome |-> "ok", ret |-> e.template_data_t[Val(time_index) + 1]]

\* get_norm_squared()
get_norm_squared(e) ==
    [outcome |-> "ok", warned |-> e.shoot_is_modified, ret |-> e.norm_squared]

\* the setters
set_use_rk2(e, use_rk2) ==
    [e EXCEPT !.shoot_is_modified = TRUE, !.use_rk2 = Some(use_rk2)]

set_kernel(e, kernel) == [e EXCEPT !.kernel = Some(kernel)]

set_initial_template_data(e, td) ==
    [e EXCEPT !.initial_template_data = td, !.flow_is_modified = TRUE]

\* a variant of set_initial_control_points that marks the flow stale as well
set_initial_control_points_and_flow(e, cps) ==
    [e EXCEPT !.shoot_is_modified = TRUE, !.flow_is_modified = TRUE,
              !.initial_control_points = cps]

set_initial_control_points(e, cps) ==
    [e EXCEPT !.shoot_is_modified = TRUE, !.initial_control_points = cps]

set_initial_momenta(e, mom) ==
    [e EXCEPT !.shoot_is_modified = TRUE, !.initial_momenta = mom]

\* exponential.number_of_time_points = n: the attribute has no setter and is
\* assigned by the owner (Geodesic.update on its two sides)
set_number_of_time_points(e, n) == [e EXCEPT !.number_of_time_points = Some(n)]

\* the list as it would be if the last vector were returned without the component
RECURSIVE AddTangentialFromSecond(_, _, _)
AddTangentialFromSecond(transport, sp, moms) ==
    IF transport = <<>> THEN <<>>
    ELSE IF Tail(transport) = <<>> THEN transport
    ELSE <<AAdd(Head(transport), AScale(sp, Head(moms)))>>
         \o AddTangentialFromSecond(Tail(transport), sp, Tail(moms))

\* [transport[i] + sp * momenta_t[i] for i in range(number_of_time_points)]
RECURSIVE AddTangential(_, _, _)
AddTangential(transport, sp, moms) ==
    IF transport = <<>> THEN <<>>
    ELSE <<AAdd(Head(transport), AScale(sp, Head(moms)))>>
         \o AddTangential(Tail(transport), sp, Tail(moms))

\* the kernel that _rk2_step evaluates when parallel_transport calls it: _rk2_step
\* is a method of the exponential and reads self.kernel
Rk2StepKernel(self) == Val(self.kernel)

\* The loop of parallel_transport from step i on.  self is the exponential, kernel
\* the exact kernel created at the top of the method; the result holds the
\* transported list, the Cholesky cache, whether a renormalisation warning was
\* emitted, and whether the loop ran to its end or raised (an index past the end of
\* a shot trajectory).
RECURSIVE TransportLoop(_, _, _, _, _, _, _, _)
RECURSIVE TransportSolve(_, _, _, _, _, _, _, _, _, _)
RECURSIVE TransportProject(_, _, _, _, _, _, _, _, _)
RECURSIVE TransportRenormalize(_, _, _, _, _, _, _, _, _)
RECURSIVE TransportAppend(_, _, _, _, _, _, _, _, _, _)
TransportLoop(self, kernel, h, initial_norm, transport, cache, warned, i) ==
    IF i = Val(self.number_of_time_points) - 1
    THEN [transport |-> transport, cache |-> cache, warned |-> warned, ok |-> TRUE]
    ELSE IF i + 2 > Len(self.control_points_t) \/ i + 2 > Len(self.momenta_t)
    THEN [transport |-> transport, cache |-> cache, warned |-> warned, ok |-> FALSE]
    ELSE TransportSolve(self, kernel, h, initial_norm, transport, cache, warned, i,
            \* approx_velocity, from the two perturbed geodesics (epsilon = h)
            ADiv(ASub(rk2_step(Rk2StepKernel(self), self.control_points_t[i + 1],
                               AAdd(self.momenta_t[i + 1],
                                    AScale(h, transport[Len(transport)])), h)[1],
                      rk2_step(Rk2StepKernel(self), self.control_points_t[i + 1],
                               ASub(self.momenta_t[i + 1],
                                    AScale(h, transport[Len(transport)])), h)[1]),
                 RMul(RMul(Q(2), h), h)),
            \* the Cholesky factor: the cached one, or a new one
            IF Len(cache) = Val(self.number_of_time_points) - 1
            THEN cache[i + 1]
            ELSE potrf(get_kernel_matrix(kernel, self.control_points_t[i + 2])))

\* approx_momenta = potrs(approx_velocity, factor); a new factor is cached
TransportSolve(self, kernel, h, initial_norm, transport, cache, warned, i, approx_velocity, cholesky_kernel_matrix) ==
    TransportProject(self, kernel, h, initial_norm, transport,
                     IF Len(cache) = Val(self.number_of_time_points) - 1
                     THEN cache ELSE Append(cache, cholesky_kernel_matrix),
                     warned, i, potrs(approx_velocity, cholesky_kernel_matrix))

\* the component along the geodesic velocity is removed
TransportProject(self, kernel, h, initial_norm, transport, cache, warned, i, approx_momenta) ==
    TransportRenormalize(self, kernel, h, initial_norm, transport, cache, warned, i,
        ASub(approx_momenta,
             AScale(RDiv(ADot(approx_momenta,
                              convolve(kernel, self.control_points_t[i + 2],
                                       self.control_points_t[i + 2],
                                       self.momenta_t[i + 2])),
                         self.norm_squared),
                    self.momenta_t[i + 2])))

\* norm_approx_momenta, in the exact kernel's metric
TransportRenormalize(self, kernel, h, initial_norm, transport, cache, warned, i, approx_momenta) ==
    TransportAppend(self, kernel, h, initial_norm, transport, cache, warned, i,
                    approx_momenta,
                    ADot(approx_momenta,
                         convolve(kernel, self.control_points_t[i + 2],
                                  self.control_points_t[i + 2], approx_momenta)))

\* the 2% warning, then approx_momenta * initial_norm / norm_approx_momenta appended
TransportAppend(self, kernel, h, initial_norm, transport, cache, warned, i, approx_momenta, norm_approx_momenta) ==
    TransportLoop(self, kernel, h, initial_norm,
                  Append(transport,
                         ADiv(AScale(initial_norm, approx_momenta), norm_approx_momenta)),
                  cache,
                  warned \/ RLess(Frac(2, 100),
                                  RAbs(RSub(RDiv(norm_approx_momenta, initial_norm), Q(1)))),
                  i + 1)

\* what parallel_transport() leaves and reports
Transported(e, outcome, warned, ret) ==
    [e |-> e, outcome |-> outcome, warned |-> warned, ret |-> ret]

\* the end of parallel_transport: the length assertion, the tangential component;
\* the factors the loop appended stay in the cache however the call ends
TransportDone(e, with_tangential_component, sp, r) ==
    IF ~r.ok \/ Len(r.transport) # Len(e.momenta_t)
    THEN Transported([e EXCEPT !.cholesky_kernel_matrices = r.cache],
                     "fault", r.warned, None)
    ELSE Transported([e EXCEPT !.cholesky_kernel_matrices = r.cache], "ok", r.warned,
                     IF with_tangential_component
                     THEN AddTangential(r.transport, sp, e.momenta_t)
                     ELSE r.transport)

\* the orthogonality assertion, then the loop started from the orthogonal part
TransportOrthogonal(e, with_tangential_component, kernel, sp, momenta_to_transport_orthogonal) ==
    IF ~RLess(RDiv(ADot(momenta_to_transport_orthogonal,
                        convolve(kernel, e.initial_control_points,
                                 e.initial_control_points, e.initial_momenta)),
                   e.norm_squared),
              Frac(1, 100000))
    THEN Transported(e, "fault", FALSE, None)
    ELSE TransportDone(e, with_tangential_component, sp,
            TransportLoop(e, kernel, Frac(1, Val(e.number_of_time_points) - 1),
                          ADot(momenta_to_transport_orthogonal,
                               convolve(kernel, e.initial_control_points,
                                        e.initial_control_points,
                                        momenta_to_transport_orthogonal)),
                          <<momenta_to_transport_orthogonal>>,
                          e.cholesky_kernel_matrices, FALSE, 0))

\* momenta_to_transport - sp * initial_momenta
TransportProjected(e, momenta_to_transport, with_tangential_component, kernel, sp) ==
    TransportOrthogonal(e, with_tangential_component, kernel, sp,
                        ASub(momenta_to_transport, AScale(sp, e.initial_momenta)))

\* a variant of parallel_transport that drops the cached factors before its checks
parallel_transport_dropping_cache(e, momenta_to_transport, with_tangential_component) ==
    IF e.shoot_is_modified
    THEN Transported([e EXCEPT !.cholesky_kernel_matrices = <<>>], "fault", FALSE, None)
    ELSE IF e.initial_momenta = None
            \/ Size(momenta_to_transport) # Size(e.initial_momenta)
    THEN Transported([e EXCEPT !.cholesky_kernel_matrices = <<>>], "fault", FALSE, None)
    ELSE IF e.kernel = None \/ Val(e.number_of_time_points) = 1
    THEN Transported(e, "fault", FALSE, None)
    ELSE TransportProjected(e, momenta_to_transport, with_tangential_component,
            create_kernel("exact", Val(e.kernel).kernel_width),
            RDiv(ADot(momenta_to_transport,
                      convolve(create_kernel("exact", Val(e.kernel).kernel_width),
                               e.initial_control_points, e.initial_control_points,
                               e.initial_momenta)),
                 e.norm_squared))

\* parallel_transport(momenta_to_transport, with_tangential_component): raises before
\* it touches anything on a stale shoot, a size mismatch, an unset kernel and
\* number_of_time_points = 1 (h = 1 / 0)
parallel_transport(e, momenta_to_transport, with_tangential_component) ==
    IF e.shoot_is_modified THEN Transported(e, "fault", FALSE, None)
    ELSE IF e.initial_momenta = None
            \/ Size(momenta_to_transport) # Size(e.initial_momenta)
    THEN Transported(e, "fault", FALSE, None)
    ELSE IF e.kernel = None \/ Val(e.number_of_time_points) = 1
    THEN Transported(e, "fault", FALSE, None)
    ELSE TransportProjected(e, momenta_to_transport, with_tangential_component,
            create_kernel("exact", Val(e.kernel).kernel_width),
            RDiv(ADot(momenta_to_transport,
                      convolve(create_kernel("exact", Val(e.kernel).kernel_width),
                               e.initial_control_points, e.initial_control_points,
                               e.initial_momenta)),
                 e.norm_squared))

\* Exponential.__init__
NewExponential ==
    [kernel |-> None,
     number_of_time_points |-> None,
     initial_control_points |-> None,
     control_points_t |-> None,
     initial_momenta |-> None,
     momenta_t |-> None,
     initial_template_data |-> None,
     template_data_t |-> None,
     shoot_is_modified |-> TRUE,
     flow_is_modified |-> TRUE,
     use_rk2 |-> None,
     norm_squared |-> None,
     cholesky_kernel_matrices |-> <<>>]

-----------------------------------------------------------------------------
(* Geodesic: two exponentials shot from t0, backward to tmin and forward   *)
(* to tmax.  Times are rationals; t0, tmin, tmax hold Some(time).          *)

\* Geodesic.__init__
NewGeodesic ==
    [concentration_of_time_points |-> None,
     t0 |-> None,
     tmax |-> None,
     tmin |-> None,
     control_points_t0 |-> None,
     momenta_t0 |-> None,
     template_data_t0 |-> None,
     backward_exponential |-> NewExponential,
     forward_exponential |-> NewExponential,
     shoot_is_modified |-> TRUE,
     flow_is_modified |-> TRUE]

\* the setters of Geodesic
geodesic_set_use_rk2(g, use_rk2) ==
    [g EXCEPT !.backward_exponential = set_use_rk2(@, use_rk2),
              !.forward_exponential = set_use_rk2(@, use_rk2)]

geodesic_set_kernel(g, kernel) ==
    [g EXCEPT !.backward_exponential = set_kernel(@, kernel),
              !.forward_exponential = set_kernel(@, kernel)]

set_t0(g, t0) == [g EXCEPT !.t0 = Some(t0), !.shoot_is_modified = TRUE]

set_tmin(g, tmin) == [g EXCEPT !.tmin = Some(tmin), !.shoot_is_modified = TRUE]

\* set_tmax as it would be without marking the shoot stale
set_tmax_unmarked(g, tmax) == [g EXCEPT !.tmax = Some(tmax)]

set_tmax(g, tmax) == [g EXCEPT !.tmax = Some(tmax), !.shoot_is_modified = TRUE]

set_template_data_t0(g, td) ==
    [g EXCEPT !.template_data_t0 = td, !.flow_is_modified = TRUE]

set_control_points_t0(g, cp) ==
    [g EXCEPT !.control_points_t0 = cp, !.shoot_is_modified = TRUE]

set_momenta_t0(g, mom) == [g EXCEPT !.momenta_t0 = mom, !.shoot_is_modified = TRUE]

\* geodesic.concentration_of_time_points = c: the attribute has no setter
set_concentration_of_time_points(g, c) ==
    [g EXCEPT !.concentration_of_time_points = Some(c)]

\* the number of time points as it would be with 1 added in place of 1.5
NumberOfTimePointsPlusOne(delta_t, concentration) ==
    IF (RMul(delta_t, Q(concentration))[1] + RMul(delta_t, Q(concentration))[2])
           \div RMul(delta_t, Q(concentration))[2] < 1
    THEN 1
    ELSE (RMul(delta_t, Q(concentration))[1] + RMul(delta_t, Q(concentration))[2])
           \div RMul(delta_t, Q(concentration))[2]

\* max(1, int(delta_t * concentration_of_time_points + 1.5)), delta_t >= 0
NumberOfTimePoints(delta_t, concentration) ==
    IF (2 * RMul(delta_t, Q(concentration))[1] + 3 * RMul(delta_t, Q(concentration))[2])
           \div (2 * RMul(delta_t, Q(concentration))[2]) < 1
    THEN 1
    ELSE (2 * RMul(delta_t, Q(concentration))[1] + 3 * RMul(delta_t, Q(concentration))[2])
           \div (2 * RMul(delta_t, Q(concentration))[2])

\* what one side of update() leaves: the exponential, and whether the side's steps
\* returned
Side(e, ok) == [e |-> e, ok |-> ok]

\* one side of update(), up to the side's own update: number_of_time_points
\* assigned, then momenta and control points under shoot_is_modified (a missing
\* momenta_t0 raises there), then template data under flow_is_modified
ConfigureSide(g, e, delta_t, sign) ==
    IF g.shoot_is_modified /\ g.momenta_t0 = None
    THEN Side(set_number_of_time_points(
                  e, NumberOfTimePoints(delta_t, Val(g.concentration_of_time_points))),
              FALSE)
    ELSE IF g.shoot_is_modified /\ g.flow_is_modified
    THEN Side(set_initial_template_data(
                set_initial_control_points(
                  set_initial_momenta(
                    set_number_of_time_points(
                      e, NumberOfTimePoints(delta_t, Val(g.concentration_of_time_points))),
                    AScale(delta_t, AScale(Q(sign), g.momenta_t0))),
                  g.control_points_t0),
                g.template_data_t0), TRUE)
    ELSE IF g.shoot_is_modified
    THEN Side(set_initial_control_points(
                set_initial_momenta(
                  set_number_of_time_points(
                    e, NumberOfTimePoints(delta_t, Val(g.concentration_of_time_points))),
                  AScale(delta_t, AScale(Q(sign), g.momenta_t0))),
                g.control_points_t0), TRUE)
    ELSE IF g.flow_is_modified
    THEN Side(set_initial_template_data(
                set_number_of_time_points(
                  e, NumberOfTimePoints(delta_t, Val(g.concentration_of_time_points))),
                g.template_data_t0), TRUE)
    ELSE Side(set_number_of_time_points(
                e, NumberOfTimePoints(delta_t, Val(g.concentration_of_time_points))), TRUE)

\* the side after its exponential's update()
SideUpdated(r) == Side(r.e, r.outcome = "ok")

\* the side's update as it would be if it were skipped at two time points too
UpdateSideOverTwo(c) ==
    IF ~c.ok THEN c
    ELSE IF Val(c.e.number_of_time_points) > 2 THEN SideUpdated(update(c.e))
    ELSE c

\* if exponential.number_of_time_points > 1: exponential.update()
UpdateSide(c) ==
    IF ~c.ok THEN c
    ELSE IF Val(c.e.number_of_time_points) > 1 THEN SideUpdated(update(c.e))
    ELSE c

\* what Geodesic.update() leaves and reports
GeodesicUpdated(g, outcome) == [g |-> g, outcome |-> outcome]

\* the end of Geodesic.update(): both flags cleared
GeodesicUpdateDone(g, f) ==
    IF ~f.ok THEN GeodesicUpdated([g EXCEPT !.forward_exponential = f.e], "fault")
    ELSE GeodesicUpdated([g EXCEPT !.forward_exponential = f.e,
                                   !.shoot_is_modified = FALSE,
                                   !.flow_is_modified = FALSE], "ok")

\* the forward half of Geodesic.update(), after the backward half left b
GeodesicUpdateForward(g, b) ==
    IF ~b.ok THEN GeodesicUpdated([g EXCEPT !.backward_exponential = b.e], "fault")
    ELSE GeodesicUpdateDone([g EXCEPT !.backward_exponential = b.e],
                            UpdateSide(ConfigureSide(g, g.forward_exponential,
                                                     RSub(Val(g.tmax), Val(g.t0)), 1)))

\* update() as it would be with the backward side's number_of_time_points
\* assigned ahead of the two assertions
geodesic_update_assigning_first(g) ==
    IF g.t0 = None \/ g.tmin = None \/ g.tmax = None THEN GeodesicUpdated(g, "fault")
    ELSE IF g.concentration_of_time_points = None THEN GeodesicUpdated(g, "fault")
    ELSE IF RLess(Val(g.t0), Val(g.tmin)) \/ RLess(Val(g.tmax), Val(g.t0))
    THEN GeodesicUpdated(
           [g EXCEPT !.backward_exponential =
              set_number_of_time_points(
                g.backward_exponential,
                NumberOfTimePoints(RSub(Val(g.t0), Val(g.tmin)),
                                   Val(g.concentration_of_time_points)))],
           "fault")
    ELSE GeodesicUpdateForward(g,
            UpdateSide(ConfigureSide(g, g.backward_exponential,
                                     RSub(Val(g.t0), Val(g.tmin)), -1)))

\* Geodesic.update(): the two assertions on t0 (a comparison with None raises as
\* well), then the backward and the forward side
geodesic_update(g) ==
    IF g.t0 = None \/ g.tmin = None \/ g.tmax = None THEN GeodesicUpdated(g, "fault")
    ELSE IF RLess(Val(g.t0), Val(g.tmin)) \/ RLess(Val(g.tmax), Val(g.t0))
    THEN GeodesicUpdated(g, "fault")
    ELSE IF g.concentration_of_time_points = None THEN GeodesicUpdated(g, "fault")
    ELSE GeodesicUpdateForward(g,
            UpdateSide(ConfigureSide(g, g.backward_exponential,
                                     RSub(Val(g.t0), Val(g.tmin)), -1)))

\* list[::-1]
RECURSIVE Reverse(_)
Reverse(l) == IF l = <<>> THEN <<>> ELSE Reverse(Tail(l)) \o <<Head(l)>>

\* list[1:]
Rest(l) == IF l = <<>> THEN <<>> ELSE Tail(l)

\* np.linspace(start, stop, num) from its i-th sample on, num > 1
RECURSIVE LinspaceFrom(_, _, _, _)
LinspaceFrom(start, stop, num, i) ==
    IF i = num THEN <<>>
    ELSE <<RAdd(start, RMul(Frac(i, num - 1), RSub(stop, start)))>>
         \o LinspaceFrom(start, stop, num, i + 1)

\* the test as it would be if a side with one time point took part as well
AtLeastOnePoint(e) == Val(e.number_of_time_points) > 0

\* a side takes part in the spliced lists if it has more than one time point
Active(e) == Val(e.number_of_time_points) > 1

\* backward[::-1] + forward[1:], an inactive side contributing the empty list
Splice(g, backward, forward) ==
    Reverse(IF Active(g.backward_exponential) THEN backward ELSE <<>>)
    \o Rest(IF Active(g.forward_exponential) THEN forward ELSE <<>>)

\* _get_times()
get_times(g) ==
    Splice(g,
           LinspaceFrom(Val(g.t0), Val(g.tmin),
                        Val(g.backward_exponential.number_of_time_points), 0),
           LinspaceFrom(Val(g.t0), Val(g.tmax),
                        Val(g.forward_exponential.number_of_time_points), 0))

\* the accessors raise when a side's number_of_time_points is unset, or when the
\* list of an active side is
Spliceable(g, backward, forward) ==
    /\ g.backward_exponential.number_of_time_points # None
    /\ g.forward_exponential.number_of_time_points # None
    /\ Active(g.backward_exponential) => backward # None
    /\ Active(g.forward_exponential) => forward # None

\* what an accessor reports: outcome, warning, the list returned
Accessed(outcome, warned, ret) == [outcome |-> outcome, warned |-> warned, ret |-> ret]

\* _get_control_points_trajectory()
get_control_points_trajectory(g) ==
    IF ~Spliceable(g, g.backward_exponential.control_points_t,
                   g.forward_exponential.control_points_t)
    THEN Accessed("fault", g.shoot_is_modified, None)
    ELSE Accessed("ok", g.shoot_is_modified,
                  Splice(g, g.backward_exponential.control_points_t,
                         g.forward_exponential.control_points_t))

\* [elt / length for elt in momenta_t]
RECURSIVE DivideAll(_, _)
DivideAll(l, length) ==
    IF l = <<>> THEN <<>> ELSE <<ADiv(Head(l), length)>> \o DivideAll(Tail(l), length)

\* _get_momenta_trajectory()
get_momenta_trajectory(g) ==
    IF ~Spliceable(g, g.backward_exponential.momenta_t, g.forward_exponential.momenta_t)
       \/ g.t0 = None \/ g.tmin = None \/ g.tmax = None
    THEN Accessed("fault", g.shoot_is_modified, None)
    ELSE Accessed("ok", g.shoot_is_modified,
                  Splice(g,
                         IF Active(g.backward_exponential)
                         THEN DivideAll(g.backward_exponential.momenta_t,
                                        RSub(Val(g.t0), Val(g.tmin)))
                         ELSE <<>>,
                         IF Active(g.forward_exponential)
                         THEN DivideAll(g.forward_exponential.momenta_t,
                                        RSub(Val(g.tmax), Val(g.t0)))
                         ELSE <<>>))

\* _get_template_trajectory()
get_template_trajectory(g) ==
    IF ~Spliceable(g, g.backward_exponential.template_data_t,
                   g.forward_exponential.template_data_t)
    THEN Accessed("fault", g.shoot_is_modified \/ g.flow_is_modified, None)
    ELSE Accessed("ok", g.shoot_is_modified \/ g.flow_is_modified,
                  Splice(g, g.backward_exponential.template_data_t,
                         g.forward_exponential.template_data_t))

\* (times - time) ** 2
RECURSIVE SquaredDistances(_, _)
SquaredDistances(times, time) ==
    IF times = <<>> THEN <<>>
    ELSE <<RMul(RSub(Head(times), time), RSub(Head(times), time))>>
         \o SquaredDistances(Tail(times), time)

\* the index as it would be if a tie went to the last of the smallest values
RECURSIVE ArgMinLastFrom(_, _, _)
ArgMinLastFrom(values, i, best) ==
    IF i > Len(values) THEN best
    ELSE ArgMinLastFrom(values, i + 1, IF RLess(values[best], values[i]) THEN best ELSE i)

\* torch.min(values, 0): the index (from 1) of the first smallest value, looking from
\* index i on, best being the index of the smallest value before i
RECURSIVE ArgMinFrom(_, _, _)
ArgMinFrom(values, i, best) ==
    IF i > Len(values) THEN best
    ELSE ArgMinFrom(values, i + 1, IF RLess(values[i], values[best]) THEN i ELSE best)

\* tensor.squeeze() of an array of points: the axes of length 1 are removed
Squeeze(a) ==
    IF Len(a) = 1 THEN (IF Len(a[1]) = 1 THEN a[1][1] ELSE a[1])
    ELSE IF Len(a[1]) = 1 THEN [i \in 1..Len(a) |-> a[i][1]]
    ELSE a

\* torch.stack(trajectory)[index].squeeze(), index being the one found on the time
\* axis
SnapshotAt(t, index) ==
    IF t.outcome = "fault" \/ index > Len(t.ret) THEN Accessed("fault", t.warned, None)
    ELSE Accessed("ok", t.warned, Squeeze(t.ret[index]))

\* Geodesic.get_template_data(time): the assertion tmin <= time <= tmax, the
\* warning, the index of the nearest time, the snapshot at that index
geodesic_get_template_data(g, time) ==
    IF g.tmin = None \/ g.tmax = None
    THEN Accessed("fault", FALSE, None)
    ELSE IF RLess(time, Val(g.tmin)) \/ RLess(Val(g.tmax), time)
    THEN Accessed("fault", FALSE, None)
    ELSE IF g.backward_exponential.number_of_time_points = None
            \/ g.forward_exponential.number_of_time_points = None
    THEN Accessed("fault", g.shoot_is_modified \/ g.flow_is_modified, None)
    ELSE IF get_times(g) = <<>>
    THEN Accessed("fault", g.shoot_is_modified \/ g.flow_is_modified, None)
    ELSE SnapshotAt(get_template_trajectory(g),
                    ArgMinFrom(SquaredDistances(get_times(g), time), 2, 1))

\* Geodesic.get_norm_squared(): the forward side's
geodesic_get_norm_squared(g) == get_norm_squared(g.forward_exponential)

\* one side of Geodesic.parallel_transport: the side's own parallel_transport if it
\* has more than one time point, else the empty list
TransportSide(e, momenta_to_transport_t0, with_tangential_component) ==
    IF Active(e)
    THEN parallel_transport(e, momenta_to_transport_t0, with_tangential_component)
    ELSE Transported(e, "ok", FALSE, <<>>)

\* what Geodesic.parallel_transport leaves and reports
GeodesicTransported(g, outcome, warned, ret) ==
    [g |-> g, outcome |-> outcome, warned |-> warned, ret |-> ret]

\* the end of parallel_transport as it would be with the whole forward result
\* appended
GeodesicTransportDoneKeepingFirst(g, b, f) ==
    IF f.outcome = "fault"
    THEN GeodesicTransported([g EXCEPT !.forward_exponential = f.e], "fault",
                             g.shoot_is_modified, None)
    ELSE GeodesicTransported([g EXCEPT !.forward_exponential = f.e], "ok",
                             g.shoot_is_modified, Reverse(b.ret) \o f.ret)

\* the end of Geodesic.parallel_transport: backward_transport[::-1] +
\* forward_transport[1:]
GeodesicTransportDone(g, b, f) ==
    IF f.outcome = "fault"
    THEN GeodesicTransported([g EXCEPT !.forward_exponential = f.e], "fault",
                             g.shoot_is_modified, None)
    ELSE GeodesicTransported([g EXCEPT !.forward_exponential = f.e], "ok",
                             g.shoot_is_modified, Reverse(b.ret) \o Rest(f.ret))

\* the forward half of Geodesic.parallel_transport, after the backward side left b
GeodesicTransportForward(g, momenta_to_transport_t0, with_tangential_component, b) ==
    IF b.outcome = "fault" \/ g.forward_exponential.number_of_time_points = None
    THEN GeodesicTransported([g EXCEPT !.backward_exponential = b.e], "fault",
                             g.shoot_is_modified, None)
    ELSE GeodesicTransportDone([g EXCEPT !.backward_exponential = b.e], b,
                               TransportSide(g.forward_exponential,
                                             momenta_to_transport_t0,
                                             with_tangential_component))

\* Geodesic.parallel_transport(momenta_to_transport_t0, with_tangential_component):
\* a stale geodesic only warns
geodesic_parallel_transport(g, momenta_to_transport_t0, with_tangential_component) ==
    IF g.backward_exponential.number_of_time_points = None
    THEN GeodesicTransported(g, "fault", g.shoot_is_modified, None)
    ELSE GeodesicTransportForward(g, momenta_to_transport_t0, with_tangential_component,
                                  TransportSide(g.backward_exponential,
                                                momenta_to_transport_t0,
                                                with_tangential_component))

-----------------------------------------------------------------------------
(* The state machine: one Exponential and its caller *)

\* number_of_time_points ranges over 1..MaxT
MaxT == 3

TimePoints == 1..MaxT

\* parallel_transport is called while the Cholesky cache holds fewer entries than
\* this (the cache of an exponential whose number_of_time_points was reassigned
\* grows with every call)
MaxCache == 3

\* the kernels a caller injects
Kernels == {create_kernel("torch", 1)}

\* arrays of shape (1, 2) and (2, 2): one control point, two template points;
\* every point starts at the origin, where the kernel values between template and
\* control points are rational; and the arrays of the same setting in dimension 1:
\* shapes (1, 1), one control point and one template point
ControlPointArrays == { << <<Q(0), Q(0)>> >>, << <<Q(0)>> >> }
MomentaArrays == { << <<Q(1), Q(0)>> >>, << <<Q(0), Q(2)>> >>, << <<Q(1)>> >> }
TemplateArrays == { << <<Q(0), Q(0)>>, <<Q(0), Q(0)>> >>, << <<Q(0)>> >> }
\* vectors to transport: of the shape of the momenta, or of another shape
TransportArrays ==
    { << <<Q(1), Q(1)>> >>, << <<Q(1), Q(1)>>, <<Q(0), Q(1)>> >>, << <<Q(2)>> >> }
TimeIndices == {None} \cup {Some(i) : i \in 0..(MaxT - 1)}

\* the dimension of the ambient space of an array
Dimension(a) == Len(a[1])

\* the arrays given to one exponential are of one dimension (Settings().dimension)
SameDimension(e, a) ==
    /\ e.initial_momenta # None => Dimension(e.initial_momenta) = Dimension(a)
    /\ e.initial_control_points # None =>
            Dimension(e.initial_control_points) = Dimension(a)
    /\ e.initial_template_data # None =>
            Dimension(e.initial_template_data) = Dimension(a)

VARIABLES
    exp,    \* the Exponential instance
    call,   \* the last call made on it and what the caller saw
    geo,    \* the Geodesic instance
    gcall   \* the last call made on the geodesic and what the caller saw

vars == <<exp, call, geo, gcall>>

\* the record of a call that returned nothing and emitted nothing
Call(op) ==
    [ op |-> op, outcome |-> "ok", warned |-> FALSE,
      shoots |-> 0, flows |-> 0,        \* how many times update entered _shoot, _flow
      again |-> FALSE,                  \* update() right after an update()
      time_index |-> None, momenta_to_transport |-> None,
      with_tangential_component |-> FALSE,
      data |-> None,                    \* what get_template_data returned
      norm |-> None,                    \* what get_norm_squared returned
      transport |-> <<>> ]              \* what parallel_transport returned

\* the record of a call on the geodesic that returned nothing and emitted nothing,
\* made by a caller that has re-set resets attributes so far
GeodesicCall(op, resets) ==
    [ op |-> op, outcome |-> "ok", warned |-> FALSE,
      time |-> None, momenta_to_transport |-> None,
      with_tangential_component |-> FALSE,
      data |-> None,                    \* the snapshot or the trajectory returned
      norm |-> None,                    \* what get_norm_squared returned
      transport |-> <<>>,               \* what parallel_transport returned
      resets |-> resets ]

Init ==
    /\ exp = NewExponential
    /\ call = Call("__init__")
    /\ geo = NewGeodesic
    /\ gcall = GeodesicCall("__init__", 0)

\* The owner configures a new exponential in the order of Geodesic (set_kernel,
\* set_use_rk2, then number_of_time_points, momenta, control points, template
\* data: geodesic.py 51-57, 118-123): a setter is called once the attribute before
\* it is set.  Every other call is made at any time.
SetKernel ==
    \E k \in Kernels :
        /\ exp' = set_kernel(exp, k)
        /\ call' = Call("set_kernel")
        /\ UNCHANGED <<geo, gcall>>

SetUseRk2 ==
    \E b \in BOOLEAN :
        /\ exp.kernel # None
        /\ exp' = set_use_rk2(exp, b)
        /\ call' = Call("set_use_rk2")
        /\ UNCHANGED <<geo, gcall>>

SetNumberOfTimePoints ==
    \E n \in TimePoints :
        /\ exp.use_rk2 # None
        /\ exp' = set_number_of_time_points(exp, n)
        /\ call' = Call("number_of_time_points")
        /\ UNCHANGED <<geo, gcall>>

SetInitialMomenta ==
    \E mom \in MomentaArrays :
        /\ exp.number_of_time_points # None
        /\ SameDimension(exp, mom)
        /\ exp' = set_initial_momenta(exp, mom)
        /\ call' = Call("set_initial_momenta")
        /\ UNCHANGED <<geo, gcall>>

SetInitialControlPoints ==
    \E cps \in ControlPointArrays :
        /\ exp.initial_momenta # None
        /\ SameDimension(exp, cps)
        /\ exp' = set_initial_control_points(exp, cps)
        /\ call' = Call("set_initial_control_points")
        /\ UNCHANGED <<geo, gcall>>

SetInitialTemplateData ==
    \E td \in TemplateArrays :
        /\ exp.initial_control_points # None
        /\ SameDimension(exp, td)
        /\ exp' = set_initial_template_data(exp, td)
        /\ call' = Call("set_initial_template_data")
        /\ UNCHANGED <<geo, gcall>>

\* the caller's view of update() having left r
UpdateReturns(r) ==
    /\ exp' = r.e
    /\ call' = [Call("update") EXCEPT !.outcome = r.outcome, !.warned = r.warned,
                                      !.shoots = r.shoots, !.flows = r.flows,
                                      !.again = (call.op = "update")]
    /\ UNCHANGED <<geo, gcall>>

Update == UpdateReturns(update(exp))

GetTemplateData ==
    \E i \in TimeIndices :
        LET r == get_template_data(exp, i)
        IN  /\ exp' = exp
            /\ call' = [Call("get_template_data") EXCEPT !.outcome = r.outcome,
                                                         !.time_index = i,
                                                         !.data = r.ret]
            /\ UNCHANGED <<geo, gcall>>

GetNormSquared ==
    LET r == get_norm_squared(exp)
    IN  /\ exp' = exp
        /\ call' = [Call("get_norm_squared") EXCEPT !.outcome = r.outcome,
                                                    !.warned = r.warned,
                                                    !.norm = r.ret]
        /\ UNCHANGED <<geo, gcall>>

\* the caller's view of parallel_transport(v, tangential) having left r
ParallelTransportReturns(v, tangential, r) ==
    /\ exp' = r.e
    /\ call' = [Call("parallel_transport") EXCEPT
                    !.outcome = r.outcome, !.warned = r.warned,
                    !.momenta_to_transport = v,
                    !.with_tangential_component = tangential,
                    !.transport = r.ret]
    /\ UNCHANGED <<geo, gcall>>

ParallelTransport ==
    \E v \in TransportArrays, tangential \in BOOLEAN :
        /\ Len(exp.cholesky_kernel_matrices) < MaxCache
        /\ ParallelTransportReturns(v, tangential, parallel_transport(exp, v, tangential))

Next ==
    \/ SetKernel
    \/ SetUseRk2
    \/ SetNumberOfTimePoints
    \/ SetInitialControlPoints
    \/ SetInitialMomenta
    \/ SetInitialTemplateData
    \/ Update
    \/ GetTemplateData
    \/ GetNormSquared
    \/ ParallelTransport

Spec == Init /\ [][Next]_vars

-----------------------------------------------------------------------------
(* The state machine of one Geodesic and its caller *)

\* t0, tmin, tmax range over the times 0, 1 and MaxTime, which give each side
\* the lengths 0, 1, MaxTime - 1 and MaxTime
MaxTime == 3

GeodesicTimes == {Q(0), Q(1), Q(MaxTime)}

\* tmax takes the time 1/2 as well: a forward side of length 1/2, for which
\* delta_t * concentration_of_time_points is not an integer
EndTimes == GeodesicTimes \cup {Frac(1, 2)}

\* concentration_of_time_points ranges over 1..MaxConcentration
MaxConcentration == 1

Concentrations == 1..MaxConcentration

\* the times a caller asks the template at: the times above and the time 1/2,
\* which is halfway between two samples of a side of length 1 with two time points
QueryTimes == GeodesicTimes \cup {Frac(1, 2)}

\* the arrays given to the geodesic are those of dimension 1
GeodesicMomenta == {m \in MomentaArrays : Dimension(m) = 1}

GeodesicControlPoints == {cp \in ControlPointArrays : Dimension(cp) = 1}

GeodesicTemplates == {td \in TemplateArrays : Dimension(td) = 1}

GeodesicTransports == {v \in TransportArrays : Dimension(v) = 1}

\* a caller sets each attribute and re-sets at most MaxResets attributes
MaxResets == 1

\* The caller configures a new geodesic in the order of the unit test
\* (parallel_transport_tests.py 36-48: kernel, use_rk2, concentration, the three
\* times, momenta, control points) and then the template data: an attribute is
\* set once the attribute before it is set.  An attribute that is set can be set
\* again, and the caller does that at most MaxResets times; the concentration,
\* which has no setter, is assigned once (parallel_transport_tests.py 42).
MaySet(before, current) ==
    /\ before # None
    /\ current = None \/ gcall.resets < MaxResets

\* the caller's view of a setter called as op on an attribute that was current
GeodesicSetterReturns(op, current, g) ==
    /\ geo' = g
    /\ gcall' = GeodesicCall(op, IF current = None THEN gcall.resets ELSE gcall.resets + 1)
    /\ UNCHANGED <<exp, call>>

GeodesicSetKernel ==
    \E k \in Kernels :
        /\ MaySet(Some(TRUE), geo.forward_exponential.kernel)
        /\ GeodesicSetterReturns("set_kernel", geo.forward_exponential.kernel,
                                 geodesic_set_kernel(geo, k))

GeodesicSetUseRk2 ==
    \E b \in BOOLEAN :
        /\ MaySet(geo.forward_exponential.kernel, geo.forward_exponential.use_rk2)
        /\ GeodesicSetterReturns("set_use_rk2", geo.forward_exponential.use_rk2,
                                 geodesic_set_use_rk2(geo, b))

SetConcentrationOfTimePoints ==
    \E c \in Concentrations :
        /\ geo.forward_exponential.use_rk2 # None
        /\ geo.concentration_of_time_points = None
        /\ GeodesicSetterReturns("concentration_of_time_points",
                                 geo.concentration_of_time_points,
                                 set_concentration_of_time_points(geo, c))

SetT0 ==
    \E t \in GeodesicTimes :
        /\ MaySet(geo.concentration_of_time_points, geo.t0)
        /\ GeodesicSetterReturns("set_t0", geo.t0, set_t0(geo, t))

SetTmin ==
    \E t \in GeodesicTimes :
        /\ MaySet(geo.t0, geo.tmin)
        /\ GeodesicSetterReturns("set_tmin", geo.tmin, set_tmin(geo, t))

SetTmax ==
    \E t \in EndTimes :
        /\ MaySet(geo.tmin, geo.tmax)
        /\ GeodesicSetterReturns("set_tmax", geo.tmax, set_tmax(geo, t))

SetMomentaT0 ==
    \E mom \in GeodesicMomenta :
        /\ MaySet(geo.tmax, geo.momenta_t0)
        /\ GeodesicSetterReturns("set_momenta_t0", geo.momenta_t0, set_momenta_t0(geo, mom))

SetControlPointsT0 ==
    \E cp \in GeodesicControlPoints :
        /\ MaySet(geo.momenta_t0, geo.control_points_t0)
        /\ GeodesicSetterReturns("set_control_points_t0", geo.control_points_t0,
                                 set_control_points_t0(geo, cp))

SetTemplateDataT0 ==
    \E td \in GeodesicTemplates :
        /\ MaySet(geo.control_points_t0, geo.template_data_t0)
        /\ GeodesicSetterReturns("set_template_data_t0", geo.template_data_t0,
                                 set_template_data_t0(geo, td))

\* update and the readers are called on a geodesic that has its control points
Configured == geo.control_points_t0 # None

\* the caller's view of Geodesic.update() having left r
GeodesicUpdateReturns(r) ==
    /\ geo' = r.g
    /\ gcall' = [GeodesicCall("update", gcall.resets) EXCEPT !.outcome = r.outcome]
    /\ UNCHANGED <<exp, call>>

GeodesicUpdate == Configured /\ GeodesicUpdateReturns(geodesic_update(geo))

\* the caller's view of Geodesic.get_template_data(time) having left r
GeodesicGetTemplateDataReturns(time, r) ==
    /\ geo' = geo
    /\ gcall' = [GeodesicCall("get_template_data", gcall.resets) EXCEPT
                    !.outcome = r.outcome, !.warned = r.warned,
                    !.time = time, !.data = r.ret]
    /\ UNCHANGED <<exp, call>>

GeodesicGetTemplateData ==
    \E time \in QueryTimes :
        /\ Configured
        /\ GeodesicGetTemplateDataReturns(time, geodesic_get_template_data(geo, time))

\* the caller's view of Geodesic.get_norm_squared() having left r
GeodesicGetNormSquaredReturns(r) ==
    /\ geo' = geo
    /\ gcall' = [GeodesicCall("get_norm_squared", gcall.resets) EXCEPT
                    !.outcome = r.outcome, !.warned = r.warned, !.norm = r.ret]
    /\ UNCHANGED <<exp, call>>

GeodesicGetNormSquared == Configured /\ GeodesicGetNormSquaredReturns(geodesic_get_norm_squared(geo))

\* the caller's view of a trajectory accessor called as op having left r
GeodesicAccessorReturns(op, r) ==
    /\ Configured
    /\ geo' = geo
    /\ gcall' = [GeodesicCall(op, gcall.resets) EXCEPT
                    !.outcome = r.outcome, !.warned = r.warned, !.data = r.ret]
    /\ UNCHANGED <<exp, call>>

GetControlPointsTrajectory ==
    GeodesicAccessorReturns("_get_control_points_trajectory",
                            get_control_points_trajectory(geo))

GetMomentaTrajectory ==
    GeodesicAccessorReturns("_get_momenta_trajectory", get_momenta_trajectory(geo))

GetTemplateTrajectory ==
    GeodesicAccessorReturns("_get_template_trajectory", get_template_trajectory(geo))

\* the caller's view of Geodesic.parallel_transport(v, tangential) having left r
GeodesicParallelTransportReturns(v, tangential, r) ==
    /\ geo' = r.g
    /\ gcall' = [GeodesicCall("parallel_transport", gcall.resets) EXCEPT
                     !.outcome = r.outcome, !.warned = r.warned,
                     !.momenta_to_transport = v,
                     !.with_tangential_component = tangential,
                     !.transport = r.ret]
    /\ UNCHANGED <<exp, call>>

GeodesicParallelTransport ==
    \E v \in GeodesicTransports, tangential \in BOOLEAN :
        /\ Configured
        /\ Len(geo.backward_exponential.cholesky_kernel_matrices) < MaxCache
        /\ Len(geo.forward_exponential.cholesky_kernel_matrices) < MaxCache
        /\ GeodesicParallelTransportReturns(v, tangential,
                                            geodesic_parallel_transport(geo, v, tangential))

GeodesicNext ==
    \/ GeodesicSetKernel
    \/ GeodesicSetUseRk2
    \/ SetConcentrationOfTimePoints
    \/ SetT0
    \/ SetTmin
    \/ SetTmax
    \/ SetMomentaT0
    \/ SetControlPointsT0
    \/ SetTemplateDataT0
    \/ GeodesicUpdate
    \/ GeodesicGetTemplateData
    \/ GeodesicGetNormSquared
    \/ GetControlPointsTrajectory
    \/ GetMomentaTrajectory
    \/ GetTemplateTrajectory
    \/ GeodesicParallelTransport

GeodesicSpec == Init /\ [][GeodesicNext]_vars

-----------------------------------------------------------------------------
(* Properties of Exponential.update and of the accessors *)

\* update() is called with number_of_time_points > 1 and control points and momenta set
UpdateCallable ==
    /\ exp.number_of_time_points # None
    /\ Val(exp.number_of_time_points) > 1
    /\ exp.initial_control_points # None
    /\ exp.initial_momenta # None

\* C1: update() called with number_of_time_points > 1 and control points and
\* momenta set: if the shoot was stale the call shoots, on an emptied Cholesky
\* cache; when the call returns the shoot is clean, and the flow is clean if template
\* data is present; without template data the call returns, with a warning only, and
\* flow_is_modified keeps the value it had.
UpdatePostcondition ==
    [][ (call'.op = "update" /\ UpdateCallable) =>
          /\ exp.shoot_is_modified =>
                (call'.shoots = 1 /\ exp'.cholesky_kernel_matrices = <<>>)
          /\ call'.outcome = "ok" =>
                /\ ~exp'.shoot_is_modified
                /\ exp.initial_template_data # None => ~exp'.flow_is_modified
          /\ exp.initial_template_data = None =>
                /\ call'.outcome = "ok"
                /\ call'.warned
                /\ call'.flows = 0
                /\ exp'.flow_is_modified = exp.flow_is_modified ]_vars

\* an update that shot and flowed and returned
UpdatePostconditionWitness ==
    /\ call.op = "update"
    /\ call.outcome = "ok"
    /\ call.shoots = 1
    /\ call.flows = 1
    /\ UpdateCallable
    /\ ~exp.shoot_is_modified
    /\ ~exp.flow_is_modified

\* C2: get_template_data(time_index) raises, and returns no snapshot, whenever
\* flow_is_modified is set (a new instance included); with the flow clean it returns
\* template_data_t[time_index], and the last snapshot when no index is given.
GetTemplateDataContract ==
    call.op = "get_template_data" =>
        /\ exp.flow_is_modified => (call.outcome = "fault" /\ call.data = None)
        /\ (~exp.flow_is_modified /\ call.time_index = None) =>
                /\ call.outcome = "ok"
                /\ call.data = exp.template_data_t[Len(exp.template_data_t)]
        /\ (~exp.flow_is_modified /\ call.time_index # None
               /\ Val(call.time_index) < Len(exp.template_data_t)) =>
                /\ call.outcome = "ok"
                /\ call.data = exp.template_data_t[Val(call.time_index) + 1]

\* a snapshot other than the last one was asked for and returned
GetTemplateDataContractWitness ==
    /\ call.op = "get_template_data"
    /\ ~exp.flow_is_modified
    /\ call.outcome = "ok"
    /\ call.time_index = Some(0)
    /\ Len(exp.template_data_t) > 1
    /\ call.data = exp.template_data_t[1]
    /\ call.data # exp.template_data_t[Len(exp.template_data_t)]

\* C3: get_template_data called after set_initial_control_points or
\* set_initial_momenta and before the next update() raises instead of returning a
\* snapshot flowed from the previous shoot; stated for the call that follows the
\* setter directly.
GetTemplateDataAfterShootSetter ==
    [][ (call.op \in {"set_initial_control_points", "set_initial_momenta"}
            /\ call'.op = "get_template_data") =>
          (call'.outcome = "fault" /\ call'.data = None) ]_vars

\* C4: get_norm_squared() called while shoot_is_modified is set raises and hands
\* no stored value to the caller; it returns norm_squared only with the shoot clean.
GetNormSquaredContract ==
    call.op = "get_norm_squared" =>
        /\ exp.shoot_is_modified => (call.outcome = "fault" /\ call.norm = None)
        /\ ~exp.shoot_is_modified =>
                (call.outcome = "ok" /\ call.norm = exp.norm_squared)

\* C5: set_initial_control_points and set_initial_momenta set shoot_is_modified
\* and leave flow_is_modified, the three trajectories, norm_squared and the Cholesky
\* cache as they were; set_initial_template_data sets flow_is_modified and leaves
\* shoot_is_modified, the control-point and momenta trajectories, norm_squared and
\* the cache as they were.
SetterFrame ==
    [][ /\ call'.op \in {"set_initial_control_points", "set_initial_momenta"} =>
              /\ exp'.shoot_is_modified
              /\ exp'.flow_is_modified = exp.flow_is_modified
              /\ exp'.control_points_t = exp.control_points_t
              /\ exp'.momenta_t = exp.momenta_t
              /\ exp'.template_data_t = exp.template_data_t
              /\ exp'.norm_squared = exp.norm_squared
              /\ exp'.cholesky_kernel_matrices = exp.cholesky_kernel_matrices
        /\ call'.op = "set_initial_template_data" =>
              /\ exp'.flow_is_modified
              /\ exp'.shoot_is_modified = exp.shoot_is_modified
              /\ exp'.control_points_t = exp.control_points_t
              /\ exp'.momenta_t = exp.momenta_t
              /\ exp'.norm_squared = exp.norm_squared
              /\ exp'.cholesky_kernel_matrices = exp.cholesky_kernel_matrices ]_vars

\* control points were set on an updated, transported exponential: the shoot is
\* stale, the flow is not, and the cache still holds its factors
SetterFrameWitness ==
    /\ call.op = "set_initial_control_points"
    /\ exp.shoot_is_modified
    /\ ~exp.flow_is_modified
    /\ exp.template_data_t # None
    /\ exp.cholesky_kernel_matrices # <<>>

\* C6: update() called with the shoot clean, the flow stale and template data
\* present runs _flow alone: it returns with flow_is_modified cleared and the
\* template trajectory replaced, and leaves the control-point and momenta
\* trajectories, norm_squared and the Cholesky cache as they were.
FlowOnlyUpdate ==
    [][ (call'.op = "update" /\ ~exp.shoot_is_modified /\ exp.flow_is_modified
            /\ exp.initial_template_data # None) =>
          /\ call'.outcome = "ok"
          /\ call'.shoots = 0
          /\ call'.flows = 1
          /\ ~exp'.flow_is_modified
          /\ ~exp'.shoot_is_modified
          /\ exp'.control_points_t = exp.control_points_t
          /\ exp'.momenta_t = exp.momenta_t
          /\ exp'.norm_squared = exp.norm_squared
          /\ exp'.cholesky_kernel_matrices = exp.cholesky_kernel_matrices ]_vars

\* C7: update() called again with no other call in between, after an update()
\* that returned, neither shoots nor flows when template data is present; and after
\* any update() it leaves norm_squared, the trajectories, the Cholesky cache and
\* both flags as the first call left them.
UpdateIdempotent ==
    [][ (call.op = "update" /\ call'.op = "update") =>
          /\ exp' = exp
          /\ (call.outcome = "ok" /\ exp.initial_template_data # None) =>
                (call'.outcome = "ok" /\ call'.shoots = 0 /\ call'.flows = 0) ]_vars

\* a second update() in a row on an exponential with template data
UpdateIdempotentWitness ==
    /\ call.op = "update"
    /\ call.again
    /\ call.outcome = "ok"
    /\ call.shoots = 0
    /\ call.flows = 0
    /\ exp.initial_template_data # None
    /\ exp.norm_squared # None

\* C8: while shoot_is_modified is false the control-point and the momenta
\* trajectory hold number_of_time_points snapshots each, and while flow_is_modified
\* is false the template trajectory does too, whatever the calls made, a
\* reassignment of number_of_time_points between two updates included.
TrajectoryLength ==
    /\ ~exp.shoot_is_modified =>
          /\ Len(exp.control_points_t) = Val(exp.number_of_time_points)
          /\ Len(exp.momenta_t) = Val(exp.number_of_time_points)
    /\ ~exp.flow_is_modified =>
          Len(exp.template_data_t) = Val(exp.number_of_time_points)

-----------------------------------------------------------------------------
(* Properties of Exponential.parallel_transport *)

\* C9: parallel_transport called while shoot_is_modified is set, or with a vector
\* of another shape than the initial momenta, raises, and leaves the flags, the
\* trajectories, norm_squared and the Cholesky cache as they were.
ParallelTransportFailsHard ==
    [][ (call'.op = "parallel_transport"
            /\ (exp.shoot_is_modified
                \/ Size(call'.momenta_to_transport) # Size(exp.initial_momenta))) =>
          (call'.outcome = "fault" /\ call'.transport = None /\ exp' = exp) ]_vars

\* a vector of the right shape was refused on a stale shoot while the cache held
\* factors
ParallelTransportFailsHardWitness ==
    /\ call.op = "parallel_transport"
    /\ call.outcome = "fault"
    /\ exp.shoot_is_modified
    /\ exp.initial_momenta # None
    /\ Size(call.momenta_to_transport) = Size(exp.initial_momenta)
    /\ exp.cholesky_kernel_matrices # <<>>

\* C10: parallel_transport entered with shoot_is_modified false (and a vector of
\* the shape of the momenta) returns one transported vector per time point, a list
\* as long as the momenta trajectory, number_of_time_points entries; its length
\* assertion never fails.
ParallelTransportLength ==
    (call.op = "parallel_transport" /\ ~exp.shoot_is_modified
        /\ Size(call.momenta_to_transport) = Size(exp.initial_momenta)) =>
          /\ call.outcome = "ok"
          /\ Len(call.transport) = Len(exp.momenta_t)
          /\ Len(call.transport) = Val(exp.number_of_time_points)

\* <m, K(cp, cp, m)> in the exact kernel of the exponential's width
ExactNorm(m, cp) ==
    ADot(m, convolve(create_kernel("exact", Val(exp.kernel).kernel_width), cp, cp, m))

\* C11: parallel transport preserves the RKHS norm: every vector of the orthogonal
\* transport (the list returned without the tangential component) stored at a step
\* i >= 1 satisfies <m, K(cp_i, cp_i, m)> = target_norm, the norm
\* <v_orth, K(cp_0, cp_0, v_orth)> of the vector stored at step 0.
TransportNormPreserved ==
    (call.op = "parallel_transport" /\ call.outcome = "ok"
        /\ ~call.with_tangential_component) =>
          \A i \in 2..Len(call.transport) :
              ExactNorm(call.transport[i], exp.control_points_t[i])
                  = ExactNorm(call.transport[1], exp.control_points_t[1])

-----------------------------------------------------------------------------
(* A concrete scenario *)

\* one control point at the origin in dimension 1 with momentum 1, a template point
\* at the control point, kernel width 1, Euler steps, two time points; update()
\* has just shot and flowed it
UnitScenario ==
    /\ call.op = "update"
    /\ call.outcome = "ok"
    /\ call.shoots = 1
    /\ call.flows = 1
    /\ exp.kernel # None
    /\ Val(exp.kernel).kernel_width = 1
    /\ exp.use_rk2 = Some(FALSE)
    /\ exp.number_of_time_points = Some(2)
    /\ exp.initial_control_points = << <<Q(0)>> >>
    /\ exp.initial_momenta = << <<Q(1)>> >>
    /\ exp.initial_template_data = << <<Q(0)>> >>

\* C20: in the scenario above norm_squared is 1 after update(), and the template
\* point is displaced by exactly 1: the final template snapshot is the initial
\* one plus 1.
UnitScenarioResult ==
    UnitScenario =>
        /\ exp.norm_squared = Q(1)
        /\ exp.template_data_t[Len(exp.template_data_t)]
               = AAdd(exp.initial_template_data, << <<Q(1)>> >>)

\* the scenario was run: two snapshots of each trajectory, both flags cleared
UnitScenarioWitness ==
    /\ UnitScenario
    /\ Len(exp.control_points_t) = 2
    /\ Len(exp.template_data_t) = 2
    /\ ~exp.shoot_is_modified
    /\ ~exp.flow_is_modified

-----------------------------------------------------------------------------
(* Properties of Geodesic.update *)

\* t0 < tmin or t0 > tmax
OutsideTimeRange(g) ==
    /\ g.t0 # None /\ g.tmin # None /\ g.tmax # None
    /\ RLess(Val(g.t0), Val(g.tmin)) \/ RLess(Val(g.tmax), Val(g.t0))

\* C12: Geodesic.update() called with t0 < tmin or t0 > tmax raises, and leaves
\* the geodesic as it was: both sides (number_of_time_points, initial momenta,
\* control points, template data, flags, trajectories) and its own flags.
GeodesicUpdateFailsHard ==
    [][ (gcall'.op = "update" /\ OutsideTimeRange(geo)) =>
          (gcall'.outcome = "fault" /\ geo' = geo) ]_vars

\* update() raised on a t0 outside the range while both sides held the
\* trajectories of an earlier update
GeodesicUpdateFailsHardWitness ==
    /\ gcall.op = "update"
    /\ gcall.outcome = "fault"
    /\ OutsideTimeRange(geo)
    /\ geo.shoot_is_modified
    /\ geo.backward_exponential.control_points_t # None
    /\ geo.forward_exponential.control_points_t # None

\* C13: after a successful Geodesic.update(), both sides hold the geodesic's
\* control_points_t0 as initial control points, the backward side's initial
\* momenta are -momenta_t0 * (t0 - tmin) and the forward side's are
\* momenta_t0 * (tmax - t0), for the current t0, tmin, tmax and momenta_t0.
SidesFollowGeodesic ==
    (gcall.op = "update" /\ gcall.outcome = "ok") =>
        /\ geo.backward_exponential.initial_control_points = geo.control_points_t0
        /\ geo.forward_exponential.initial_control_points = geo.control_points_t0
        /\ geo.backward_exponential.initial_momenta
               = AScale(RSub(Val(geo.tmin), Val(geo.t0)), geo.momenta_t0)
        /\ geo.forward_exponential.initial_momenta
               = AScale(RSub(Val(geo.tmax), Val(geo.t0)), geo.momenta_t0)

\* update() returned after tmax was re-set to t0: the forward side still holds the
\* trajectory of the earlier update, and its initial momenta are now zero
SidesFollowGeodesicWitness ==
    /\ gcall.op = "update"
    /\ gcall.outcome = "ok"
    /\ gcall.resets = 1
    /\ geo.tmax = geo.t0
    /\ RLess(Val(geo.tmin), Val(geo.t0))
    /\ geo.forward_exponential.control_points_t # None
    /\ Len(geo.forward_exponential.control_points_t) > 1
    /\ geo.forward_exponential.initial_momenta = AScale(Q(0), geo.momenta_t0)

\* the two sides of the geodesic
Sides == {geo.backward_exponential, geo.forward_exponential}

\* update() has just returned
GeodesicUpdateReturned == gcall.op = "update" /\ gcall.outcome = "ok"

\* C14 as stated: after Geodesic.update() returns, the geodesic's two flags are
\* false, and on every side with more than one time point shoot_is_modified and
\* flow_is_modified are both false.
UpdateLeavesSidesClean ==
    GeodesicUpdateReturned =>
        /\ ~geo.shoot_is_modified
        /\ ~geo.flow_is_modified
        /\ \A e \in Sides :
             Val(e.number_of_time_points) > 1 =>
                 (~e.shoot_is_modified /\ ~e.flow_is_modified)

\* C14, amended: after Geodesic.update() returns, the geodesic's two flags are
\* false, and on every side with more than one time point shoot_is_modified is
\* false, and flow_is_modified is false if the geodesic has template data and
\* true if it has none.
UpdateLeavesSidesShot ==
    GeodesicUpdateReturned =>
        /\ ~geo.shoot_is_modified
        /\ ~geo.flow_is_modified
        /\ \A e \in Sides :
             Val(e.number_of_time_points) > 1 =>
                 /\ ~e.shoot_is_modified
                 /\ e.flow_is_modified = (geo.template_data_t0 = None)

\* update() returned on a geodesic without template data: both sides are shot and
\* keep flow_is_modified, while the geodesic's flow_is_modified is cleared
UpdateLeavesSidesShotWitness ==
    /\ GeodesicUpdateReturned
    /\ geo.template_data_t0 = None
    /\ ~geo.flow_is_modified
    /\ \A e \in Sides :
         /\ Val(e.number_of_time_points) > 1
         /\ ~e.shoot_is_modified
         /\ e.flow_is_modified

-----------------------------------------------------------------------------
(* Properties of the readers of a Geodesic *)

\* no setter was called since update() last returned
GeodesicClean == ~geo.shoot_is_modified /\ ~geo.flow_is_modified

\* C15: Geodesic.get_norm_squared() returns the forward side's norm_squared, and
\* on an updated geodesic whose two sides have more than one time point that is
\* the backward side's norm_squared as well.
NormSquaredOfBothSides ==
    (gcall.op = "get_norm_squared" /\ GeodesicClean
        /\ \A e \in Sides : Val(e.number_of_time_points) > 1) =>
          /\ gcall.norm = geo.forward_exponential.norm_squared
          /\ gcall.norm = geo.backward_exponential.norm_squared

\* (t - time) ** 2
SquaredDistance(t, time) == RMul(RSub(t, time), RSub(t, time))

\* no time of the axis is nearer to time than the k-th, and every time before the
\* k-th is farther
FirstNearest(times, time, k) ==
    /\ \A j \in 1..Len(times) :
         ~RLess(SquaredDistance(times[j], time), SquaredDistance(times[k], time))
    /\ \A j \in 1..(k - 1) :
         RLess(SquaredDistance(times[k], time), SquaredDistance(times[j], time))

\* C16: what Geodesic.get_template_data(time) returns is the snapshot (squeezed) of
\* the spliced template trajectory at the first index whose time on the spliced
\* time axis is nearest to time; nothing is interpolated.
NearestSnapshot ==
    (gcall.op = "get_template_data" /\ gcall.outcome = "ok") =>
        \E k \in 1..Len(get_times(geo)) :
            /\ FirstNearest(get_times(geo), gcall.time, k)
            /\ gcall.data = Squeeze(get_template_trajectory(geo).ret[k])

\* the template was asked at a time halfway between the first two times of the
\* axis of an updated geodesic, whose snapshots differ, and the first came back
NearestSnapshotWitness ==
    /\ gcall.op = "get_template_data"
    /\ gcall.outcome = "ok"
    /\ GeodesicClean
    /\ Len(get_times(geo)) > 2
    /\ SquaredDistance(get_times(geo)[1], gcall.time)
           = SquaredDistance(get_times(geo)[2], gcall.time)
    /\ FirstNearest(get_times(geo), gcall.time, 1)
    /\ get_template_trajectory(geo).ret[1] # get_template_trajectory(geo).ret[2]
    /\ gcall.data = Squeeze(get_template_trajectory(geo).ret[1])

\* C17: on an updated geodesic with template data, get_template_data(t0) returns
\* template_data_t0 (squeezed), the snapshot at index 0 of the template trajectory
\* of either side, whether or not t0 is tmin or tmax.
TemplateAtT0 ==
    (gcall.op = "get_template_data" /\ GeodesicClean
        /\ geo.template_data_t0 # None /\ gcall.time = Val(geo.t0)) =>
          /\ gcall.outcome = "ok"
          /\ gcall.data = Squeeze(geo.template_data_t0)

-----------------------------------------------------------------------------
(* Properties of Geodesic.parallel_transport *)

\* what the parallel_transport of side e returns for the vector and the flag of
\* the call c, the empty list if the side has one time point
SideTransport(e, c) ==
    IF Val(e.number_of_time_points) > 1
    THEN parallel_transport(e, c.momenta_to_transport, c.with_tangential_component).ret
    ELSE <<>>

\* the last entry of a list
Last(l) == l[Len(l)]

-----------------------------------------------------------------------------
(* Staleness of a Geodesic *)

\* the setters that mark the shoot stale, and the readers
ShootSetters ==
    {"set_t0", "set_tmin", "set_tmax", "set_momenta_t0", "set_control_points_t0"}

TemplateReaders == {"get_template_data", "_get_template_trajectory"}

GeodesicReaders ==
    TemplateReaders
    \cup {"_get_control_points_trajectory", "_get_momenta_trajectory", "parallel_transport"}

\* C19: a reader of the geodesic (get_template_data, a trajectory accessor,
\* parallel_transport) called right after a setter, with no update() in between,
\* raises: after set_t0, set_tmin, set_tmax, set_momenta_t0 or
\* set_control_points_t0 every reader does, after set_template_data_t0 the readers
\* of the template do.
StaleReadFaults ==
    [][ (gcall'.op \in GeodesicReaders
            /\ (gcall.op \in ShootSetters
                \/ (gcall.op = "set_template_data_t0" /\ gcall'.op \in TemplateReaders))) =>
          gcall'.outcome = "fault" ]_vars

-----------------------------------------------------------------------------
(* The number of time points of the two sides *)

\* the length of the backward and of the forward side
BackwardLength == RSub(Val(geo.t0), Val(geo.tmin))

ForwardLength == RSub(Val(geo.tmax), Val(geo.t0))

\* n is an integer nearest to x: |n - x| <= 1/2
Nearest(n, x) == ~RLess(Frac(1, 2), RAbs(RSub(Q(n), x)))

\* n = max(1, round(concentration * length + 0.5)), round giving a nearest integer
\* (either of the two at a tie)
RoundedTimePoints(n, length) ==
    \E r \in 0..(n + 1) :
        /\ Nearest(r, RAdd(RMul(Q(Val(geo.concentration_of_time_points)), length),
                           Frac(1, 2)))
        /\ n = IF r < 1 THEN 1 ELSE r

\* n = max(1, floor(concentration * length + 1.5))
FlooredTimePoints(n, length) ==
    IF RLess(RAdd(RMul(Q(Val(geo.concentration_of_time_points)), length), Frac(3, 2)),
             Q(1))
    THEN n = 1
    ELSE /\ ~RLess(RAdd(RMul(Q(Val(geo.concentration_of_time_points)), length),
                        Frac(3, 2)), Q(n))
         /\ RLess(RAdd(RMul(Q(Val(geo.concentration_of_time_points)), length),
                       Frac(3, 2)), Q(n + 1))

\* C21 as stated: after Geodesic.update() each side's number_of_time_points is
\* max(1, round(concentration_of_time_points * length + 0.5)), length being
\* t0 - tmin for the backward and tmax - t0 for the forward side.
TimePointsRounded ==
    GeodesicUpdateReturned =>
        /\ RoundedTimePoints(Val(geo.backward_exponential.number_of_time_points),
                             BackwardLength)
        /\ RoundedTimePoints(Val(geo.forward_exponential.number_of_time_points),
                             ForwardLength)

\* C21, amended: after Geodesic.update() each side's number_of_time_points is
\* max(1, floor(concentration_of_time_points * length + 1.5)), length being
\* t0 - tmin for the backward and tmax - t0 for the forward side.
TimePointsFloored ==
    GeodesicUpdateReturned =>
        /\ FlooredTimePoints(Val(geo.backward_exponential.number_of_time_points),
                             BackwardLength)
        /\ FlooredTimePoints(Val(geo.forward_exponential.number_of_time_points),
                             ForwardLength)

\* update() returned with a forward side of length 1/2, which has two time points,
\* and a backward side of length 0, which has one
TimePointsFlooredWitness ==
    /\ GeodesicUpdateReturned
    /\ ForwardLength = Frac(1, 2)
    /\ BackwardLength = Q(0)
    /\ geo.forward_exponential.number_of_time_points = Some(2)
    /\ geo.backward_exponential.number_of_time_points = Some(1)

\* the two sides by the name of their attribute
SideNames == {"backward_exponential", "forward_exponential"}

\* what the update() or the parallel_transport of a side would assign is as it was
SameResults(e, f) ==
    /\ f.control_points_t = e.control_points_t
    /\ f.momenta_t = e.momenta_t
    /\ f.template_data_t = e.template_data_t
    /\ f.norm_squared = e.norm_squared
    /\ f.cholesky_kernel_matrices = e.cholesky_kernel_matrices

\* the number of entries of a spliced list of g: all the entries of the backward
\* side and all but the first of the forward side, a side with one time point
\* giving none
SplicedLength(g) ==
    (IF Val(g.backward_exponential.number_of_time_points) > 1
     THEN Val(g.backward_exponential.number_of_time_points) ELSE 0)
    + (IF Val(g.forward_exponential.number_of_time_points) > 1
       THEN Val(g.forward_exponential.number_of_time_points) - 1 ELSE 0)

\* the time axis and the spliced trajectories of g have SplicedLength(g) entries
SplicedListsOf(g) ==
    /\ Len(get_times(g)) = SplicedLength(g)
    /\ Len(get_control_points_trajectory(g).ret) = SplicedLength(g)
    /\ Len(get_momenta_trajectory(g).ret) = SplicedLength(g)
    /\ g.template_data_t0 # None =>
           Len(get_template_trajectory(g).ret) = SplicedLength(g)

\* C22: a side that Geodesic.update() gives one time point is not updated (update()
\* returns, and the side's trajectories, norm_squared and cache are as before),
\* and it gives no entry to the time axis or to the spliced trajectories; a
\* parallel_transport on the updated geodesic leaves such a side as it was and
\* returns no entry for it.
SinglePointSideSkipped ==
    [][ /\ (gcall'.op = "update" /\ ~OutsideTimeRange(geo)) =>
              /\ gcall'.outcome = "ok"
              /\ SplicedListsOf(geo')
              /\ \A s \in SideNames :
                   geo'[s].number_of_time_points = Some(1) =>
                       SameResults(geo[s], geo'[s])
        /\ (gcall'.op = "parallel_transport" /\ gcall'.outcome = "ok"
               /\ ~geo.shoot_is_modified) =>
              /\ Len(gcall'.transport) = SplicedLength(geo)
              /\ \A s \in SideNames :
                   geo[s].number_of_time_points = Some(1) => geo'[s] = geo[s] ]_vars

\* update() returned after tmin was re-set to t0: the backward side has one time
\* point and still holds the trajectory of the update before, and the spliced
\* control-point trajectory has the entries of the forward side but its first
SinglePointSideSkippedWitness ==
    /\ GeodesicUpdateReturned
    /\ gcall.resets = 1
    /\ geo.backward_exponential.number_of_time_points = Some(1)
    /\ geo.backward_exponential.control_points_t # None
    /\ Len(geo.backward_exponential.control_points_t) > 1
    /\ Val(geo.forward_exponential.number_of_time_points) > 1
    /\ Len(get_control_points_trajectory(geo).ret)
           = Val(geo.forward_exponential.number_of_time_points) - 1

-----------------------------------------------------------------------------
(* The Cholesky cache of an Exponential whose kernel is replaced *)

\* the widths of the kernels that replace the kernel of an exponential
MaxWidth == 2

KernelWidths == 1..MaxWidth

\* set_kernel(kernel) on an exponential that has a kernel already: the kernel is
\* replaced by one of another or the same width
ReplaceKernel ==
    \E w \in KernelWidths :
        /\ exp.kernel # None
        /\ exp' = set_kernel(exp, create_kernel("torch", w))
        /\ call' = Call("set_kernel")
        /\ UNCHANGED <<geo, gcall>>

\* the arrays of the exponential are those of the setting in dimension 1
OneDimension(e) ==
    /\ e.initial_momenta # None => Dimension(e.initial_momenta) = 1
    /\ e.initial_control_points # None => Dimension(e.initial_control_points) = 1
    /\ e.initial_template_data # None => Dimension(e.initial_template_data) = 1

\* the calls of Next on the setting in dimension 1, and the replacement of the kernel
ReplacingNext == (Next /\ OneDimension(exp')) \/ ReplaceKernel

ReplacingSpec == Init /\ [][ReplacingNext]_vars

\* parallel_transport would read the cache of e: it passes its assertions and
\* finds number_of_time_points - 1 factors
CacheIsRead(e) ==
    /\ e.kernel # None
    /\ e.number_of_time_points # None
    /\ ~e.shoot_is_modified
    /\ Len(e.cholesky_kernel_matrices) = Val(e.number_of_time_points) - 1

\* the factor that step i of parallel_transport needs: that of the Gram matrix of
\* control_points_t[i+1] under the exact kernel of the current width
FactorOfStep(e, i) ==
    potrf(get_kernel_matrix(create_kernel("exact", Val(e.kernel).kernel_width),
                            e.control_points_t[i + 2]))

\* C23: in every reachable state, each cached factor that parallel_transport reads
\* at step i is the Cholesky factor of the Gram matrix of control_points_t[i+1] of
\* the current control-point trajectory under the current kernel width, whatever
\* setters (set_kernel and set_use_rk2 included), update() and parallel_transport
\* calls came before
CachedFactorsValid ==
    CacheIsRead(exp) =>
        \A i \in 0..(Len(exp.cholesky_kernel_matrices) - 1) :
            /\ i + 2 <= Len(exp.control_points_t)
            /\ exp.cholesky_kernel_matrices[i + 1] = FactorOfStep(exp, i)

-----------------------------------------------------------------------------
(* The life cycle of the Cholesky cache *)

\* C24: the cache is empty after any update() that ran shoot; the first completed
\* parallel_transport after that adds one factor per step and ends with
\* number_of_time_points - 1 entries; every later parallel_transport on the same
\* shoot adds none; so the cache size is always between 0 and
\* number_of_time_points - 1.
CacheLifecycle ==
    [][ /\ (call'.op = "update" /\ call'.shoots = 1) =>
              exp'.cholesky_kernel_matrices = <<>>
        /\ (call'.op = "parallel_transport" /\ call'.outcome = "ok"
                /\ exp.cholesky_kernel_matrices = <<>>) =>
              Len(exp'.cholesky_kernel_matrices) = Val(exp.number_of_time_points) - 1
        /\ (call'.op = "parallel_transport" /\ exp.cholesky_kernel_matrices # <<>>) =>
              exp'.cholesky_kernel_matrices = exp.cholesky_kernel_matrices
        /\ exp'.number_of_time_points # None =>
              Len(exp'.cholesky_kernel_matrices) <= Val(exp'.number_of_time_points) - 1
      ]_vars

-----------------------------------------------------------------------------
(* The tangential component of a parallel transport *)

\* sp = <v0, K(cp0, cp0, mom0)> / norm_squared, in the exact kernel of e's width
ScalarProduct(e, v0) ==
    RDiv(ADot(v0, convolve(create_kernel("exact", Val(e.kernel).kernel_width),
                           e.initial_control_points, e.initial_control_points,
                           e.initial_momenta)),
         e.norm_squared)

\* list[i] = without[i] + sp * moms[i] at every index i in 0..T-1
TangentialAdded(list, without, sp, moms, T) ==
    /\ Len(list) = T
    /\ Len(without) = T
    /\ \A i \in 1..T : list[i] = AAdd(without[i], AScale(sp, moms[i]))

\* C25: the result of parallel_transport with the tangential component equals, at
\* every index i in 0..T-1, the result without it plus sp * momenta_t[i], sp being
\* <v0, K(cp0, cp0, mom0)> / norm_squared; entry 0 is the input vector v0, and
\* without the tangential component entry 0 is v0 - sp * mom0.
TangentialComponent ==
    [][ (call'.op = "parallel_transport" /\ call'.outcome = "ok") =>
          IF call'.with_tangential_component
          THEN /\ parallel_transport(exp, call'.momenta_to_transport, FALSE).outcome = "ok"
               /\ TangentialAdded(call'.transport,
                      parallel_transport(exp, call'.momenta_to_transport, FALSE).ret,
                      ScalarProduct(exp, call'.momenta_to_transport),
                      exp.momenta_t, Val(exp.number_of_time_points))
               /\ call'.transport[1] = call'.momenta_to_transport
          ELSE call'.transport[1] =
                   ASub(call'.momenta_to_transport,
                        AScale(ScalarProduct(exp, call'.momenta_to_transport),
                               exp.initial_momenta)) ]_vars

\* a transport with the tangential component returned, of a vector with a
\* component along the initial momenta (sp is not 0) over more than one step,
\* whose last vector is a finite one
TangentialComponentWitness ==
    /\ call.op = "parallel_transport"
    /\ call.outcome = "ok"
    /\ call.with_tangential_component
    /\ Len(call.transport) = MaxT
    /\ ScalarProduct(exp, call.momenta_to_transport) \notin {Q(0), NaN}
    /\ \A k \in 1..Len(call.transport[MaxT][1]) : call.transport[MaxT][1][k][2] # 0

-----------------------------------------------------------------------------
(* The kernels that the loop of parallel_transport evaluates *)

\* kernel = create_kernel('exact', self.kernel.kernel_width), at the top of
\* parallel_transport
ExactKernel(e) == create_kernel("exact", Val(e.kernel).kernel_width)

\* the kernels one step of the loop evaluates: that of the two _rk2_step calls, and
\* the kernel created at the top of the method for the Gram matrix, the drift
\* removal and the norm
LoopKernels(e) == {Rk2StepKernel(e), ExactKernel(e)}

\* C26: every kernel evaluation in the loop of parallel_transport (the two perturbed
\* RK2 steps, the Gram matrix, the drift removal, the norm) uses the exact kernel
\* created by the method and never the kernel injected with set_kernel.
LoopUsesExactKernel ==
    [][ (call'.op = "parallel_transport" /\ call'.outcome = "ok") =>
          \A k \in LoopKernels(exp) : k = ExactKernel(exp) /\ k # Val(exp.kernel) ]_vars

-----------------------------------------------------------------------------
(* The momenta trajectory of a Geodesic *)

\* the place (from 1) of the snapshot of time t0 in a spliced list: the last of the
\* reversed backward list when the backward side takes part, the first otherwise
IndexOfT0(g) ==
    IF Active(g.backward_exponential)
    THEN Val(g.backward_exponential.number_of_time_points)
    ELSE 1

\* C27: in the spliced momenta trajectory that _get_momenta_trajectory returns
\* after update(), the rescaling of each side is undone: the entry at time t0 is
\* momenta_t0, sign and magnitude, whichever side supplies it.
MomentaAtT0 ==
    (gcall.op = "_get_momenta_trajectory" /\ gcall.outcome = "ok" /\ GeodesicClean
        /\ gcall.data # <<>>) =>
          gcall.data[IndexOfT0(geo)] = geo.momenta_t0

-----------------------------------------------------------------------------
(* The norm of an updated Geodesic *)

\* norm_squared as a shoot of the forward side computes it from the geodesic's
\* control_points_t0 and momenta_t0: <m, K(cp, cp) m> with m = momenta_t0 * (tmax - t0)
ShotNormSquared(g) ==
    ADot(AScale(RSub(Val(g.tmax), Val(g.t0)), g.momenta_t0),
         convolve(Val(g.forward_exponential.kernel), g.control_points_t0,
                  g.control_points_t0,
                  AScale(RSub(Val(g.tmax), Val(g.t0)), g.momenta_t0)))

\* C28: after a successful update(), get_norm_squared() returns a value that a shoot
\* computed from the geodesic's current control_points_t0 and momenta_t0, never an
\* unset value nor the value of an earlier shoot, also when tmax = t0 and the
\* forward side, with a single time point, is skipped.
NormSquaredFromCurrentShoot ==
    (gcall.op = "get_norm_squared" /\ GeodesicClean) =>
        /\ gcall.norm # None
        /\ gcall.norm = ShotNormSquared(geo)

-----------------------------------------------------------------------------
(* The setters of the inputs of shoot *)

\* the setters of the Exponential that change an input of _shoot
ShootInputSetters ==
    {"set_initial_control_points", "set_initial_momenta", "set_use_rk2", "set_kernel"}

\* C29: every setter of an input of shoot marks the shoot stale: after
\* set_initial_control_points, set_initial_momenta, set_use_rk2 or set_kernel the
\* shoot is stale, and the update() that follows shoots again (trajectories and
\* norm_squared recomputed) on an emptied Cholesky cache.
ShootInputsMarkStale ==
    [][ /\ call'.op \in ShootInputSetters => exp'.shoot_is_modified
        /\ (call.op \in ShootInputSetters /\ call'.op = "update"
                /\ call'.outcome = "ok") =>
              (call'.shoots = 1 /\ exp'.cholesky_kernel_matrices = <<>>) ]_vars

-----------------------------------------------------------------------------
(* update() on every accepted number of time points *)

\* C30: for every number_of_time_points that the assertion of update() accepts (any
\* value above 0, 1 included), update() on an exponential with a kernel, control
\* points and momenta runs to completion and leaves control-point and momenta
\* trajectories of that many snapshots, whose snapshot 0 is the initial control
\* points and the initial momenta.
UpdateCompletes ==
    [][ (call'.op = "update" /\ exp.number_of_time_points # None /\ exp.kernel # None
            /\ exp.initial_control_points # None /\ exp.initial_momenta # None) =>
          /\ call'.outcome = "ok"
          /\ Len(exp'.control_points_t) = Val(exp.number_of_time_points)
          /\ Len(exp'.momenta_t) = Val(exp.number_of_time_points)
          /\ exp'.control_points_t[1] = exp.initial_control_points
          /\ exp'.momenta_t[1] = exp.initial_momenta ]_vars

=============================================================================
